---- MODULE Spec2Model ----
(***************************************************************************)
(* Identity and access control of the HR backend: registration, login,     *)
(* the refresh-token ledger, the password-reset ledger and the audit log.  *)
(* Every `await` on the store in a route handler is one atomic step of a   *)
(* request; requests of different clients interleave between those steps.  *)
(***************************************************************************)
EXTENDS Integers, Sequences, FiniteSets, TLC

(* ------------------------------ bounds -------------------------------- *)
MaxReq == 2        \* requests in flight at the same time
MaxTok == 3        \* refresh / reset token values ever generated
MaxNow == 3        \* clock ticks, where refresh tokens expire
MaxResetNow == 2   \* clock ticks, where reset tokens expire
NumSalts == 1      \* distinct bcrypt salts
MaxId == 4         \* ids of payroll and training records ever created
MaxAudit == 2      \* audit entries written in one run of the guarded routes
MaxCall == 2       \* requests the API client has outstanding at the same time
MaxDept == 3       \* departments ever created

(* one tick of the model clock stands for half of REFRESH_TOKEN_EXPIRES_MS *)
REFRESH_TOKEN_EXPIRES == 2
RESET_TOKEN_EXPIRES == 1

Req == 1..MaxReq
Emails == {"alice@x.com", "bob@x.com"}
Passwords == {"pw1", "pw2"}
RegisterRoles == {"EMPLOYEE", "ADMIN"}
Salts == 1..NumSalts
Call == 1..MaxCall

VARIABLES
  users,          \* credential store: rows of prisma.user
  refreshTokens,  \* refresh-token ledger: rows of prisma.refreshToken
  resetTokens,    \* password-reset ledger
  auditLogs,      \* audit log: sequence of entries, oldest first
  now,            \* Date.now(), in ticks
  nextTok,        \* next fresh token value
  reqs,           \* the requests in flight, one record per slot
  returned,       \* history: refresh tokens handed out by finished requests
  resetIssued,    \* history: reset tokens ever created
  resetApplied,   \* history: reset tokens whose reset replaced a password
  registered,     \* history: credentials accepted by register
  employees,      \* rows of prisma.employee
  payrollRecords, \* rows of prisma.payrollRecord
  trainingRecords,\* rows of prisma.trainingRecord
  nextId,         \* next fresh record id
  auditDown,      \* the audit store refuses writes
  departments,    \* rows of prisma.department
  calls,          \* API client: the requests sent through `api`
  localStorage,   \* API client: the stored access and refresh token
  location        \* API client: window.location.href

vars == <<users, refreshTokens, resetTokens, auditLogs, now, nextTok, reqs,
          returned, resetIssued, resetApplied, registered,
          employees, payrollRecords, trainingRecords, nextId, auditDown,
          departments, calls, localStorage, location>>

\* the state of the API client in the browser
clientVars == <<calls, localStorage, location>>

\* the stores behind the guarded resource routes, and the client
resourceVars == <<employees, payrollRecords, trainingRecords, nextId, auditDown,
                  departments, clientVars>>

(* ------------------------------ helpers ------------------------------- *)
NoOutcome == [kind |-> "none", message |-> "", code |-> "",
              accessToken |-> <<>>, refreshToken |-> 0]

\* req.user when authenticate has not set it
NoUser == [id |-> 0, role |-> "", employeeId |-> 0]

\* an optional number the body does not carry
Undefined == -1

\* a request body without the optional fields
NoBody == [employeeId |-> 0, status |-> "", name |-> "",
           baseSalary |-> Undefined, overtime |-> Undefined,
           bonuses |-> Undefined, allowances |-> Undefined,
           deductions |-> Undefined, tax |-> Undefined]

\* a request: its inputs (email, password, token, access, verified, rid, body),
\* the handler's locals (uid, urole, hash, newTok, user), its position (pc) and
\* its response (outcome); before, at and seen are history: what the store held
\* when the request read it; touched, logged and auditLost are history: the
\* store operations its handler performed, the audit entries it wrote, and
\* whether its audit write was refused
IdleReq == [op |-> "none", pc |-> "idle", email |-> "", password |-> "",
            token |-> 0, uid |-> 0, urole |-> "", hash |-> <<>>,
            newTok |-> 0, before |-> {}, at |-> 0,
            seen |-> {}, outcome |-> NoOutcome,
            access |-> <<>>, verified |-> FALSE, user |-> NoUser, rid |-> 0,
            body |-> NoBody, touched |-> <<>>, logged |-> <<>>,
            auditLost |-> FALSE]

Success(msg, access, refresh) ==
  [kind |-> "success", message |-> msg, code |-> "",
   accessToken |-> access, refreshToken |-> refresh]

\* throw new <kind>(message, null, code) handed to next(error)
Failure(kind, msg, code) ==
  [kind |-> kind, message |-> msg, code |-> code,
   accessToken |-> <<>>, refreshToken |-> 0]

\* bcrypt.hash(password, saltRounds): a salted digest
Hash(password, salt) == <<"bcrypt", salt, password>>

Compare_AnyPassword(password, hash) == TRUE

\* bcrypt.compare(password, hash): re-hash with the salt stored in the hash
Compare(password, hash) == Hash(password, hash[2]) = hash

\* generateTokens({userId, role}).accessToken: signed claims of the caller
AccessToken(uid, role) == <<"access", uid, role>>

\* prisma.user.findUnique({ where: { email } })
FindByEmail(email) == {u \in users : u.email = email}

UserById(uid) == {u \in users : u.id = uid}

(* ------------------------------ Init ---------------------------------- *)
\* a request the client has not sent: its config (`retry` is config._retry,
\* `auth` the Authorization header), the number of times it was sent and of
\* refresh calls made for it, and the status of the last response
IdleCall == [pc |-> "idle", retry |-> FALSE, sends |-> 0, refreshes |-> 0,
             status |-> 0, auth |-> 0]

\* the client has sent nothing, holds no token and shows the application
ClientIdle ==
  /\ calls = [c \in Call |-> IdleCall]
  /\ localStorage = [accessToken |-> 0, refreshToken |-> 0]
  /\ location = "/"

Init ==
  /\ users = {}
  /\ refreshTokens = {}
  /\ resetTokens = {}
  /\ auditLogs = <<>>
  /\ now = 0
  /\ nextTok = 1
  /\ reqs = [r \in Req |-> IdleReq]
  /\ returned = {}
  /\ resetIssued = {}
  /\ resetApplied = {}
  /\ registered = {}
  /\ employees = {}
  /\ payrollRecords = {}
  /\ trainingRecords = {}
  /\ nextId = 1
  /\ auditDown = FALSE
  /\ departments = {}
  /\ ClientIdle

(* ------------------------- request bookkeeping ------------------------- *)
\* a new request takes the lowest free slot (slots are interchangeable)
CanStart(r) ==
  /\ reqs[r].pc = "idle"
  /\ \A q \in Req : q < r => reqs[q].pc # "idle"

\* res.json(...) or next(error): the request is over
Finish(r, rec, out) ==
  [reqs EXCEPT ![r] = [rec EXCEPT !.pc = "done", !.outcome = out]]

\* time passes, up to `limit`
Tick(limit) ==
  /\ now < limit
  /\ now' = now + 1
  /\ UNCHANGED <<users, refreshTokens, resetTokens, auditLogs, nextTok, reqs,
                 returned, resetIssued, resetApplied, registered>>
  /\ UNCHANGED resourceVars

\* the response has been delivered: the slot is free for the next request
Recycle(r) ==
  /\ reqs[r].pc = "done"
  /\ reqs' = [reqs EXCEPT ![r] = IdleReq]
  /\ UNCHANGED <<users, refreshTokens, resetTokens, auditLogs, now, nextTok,
                 returned, resetIssued, resetApplied, registered>>
  /\ UNCHANGED resourceVars

(* ------------------------------ register ------------------------------ *)
EmailTaken_Skipped(email) == FALSE

\* existingUser = findUnique({where: {email}}); if (existingUser) throw
EmailTaken(email) == FindByEmail(email) # {}

UserExistsError ==
  Failure("ValidationError", "User already exists with this email", "USER_EXISTS")

\* the unique index on user.email rejects the insert
UniqueViolation ==
  Failure("PrismaClientKnownRequestError", "Unique constraint failed", "P2002")

\* prisma.user.create({data: {email, password: hashedPassword, role}})
NewUser(id, email, hash, role) ==
  [id |-> id, email |-> email, password |-> hash, role |-> role,
   isActive |-> TRUE, lastLoginAt |-> -1, employeeId |-> 0]

RefreshExpiresAt_NoLifetime(t) == t

\* expiresAt: new Date(Date.now() + REFRESH_TOKEN_EXPIRES_MS)
RefreshExpiresAt(t) == t + REFRESH_TOKEN_EXPIRES

\* prisma.refreshToken.create({data: {token, userId, expiresAt}})
StoreRefreshToken(ledger, tok, uid, t) ==
  ledger \cup {[token |-> tok, userId |-> uid, expiresAt |-> RefreshExpiresAt(t)]}

\* createAuditLog(userId, action, resource, resourceId, before, after, req)
AuditEntry(uid, action, resource, rid) ==
  [userId |-> uid, action |-> action, resource |-> resource, resourceId |-> rid]

CreateAuditLog_Replace(log, entry, down) == IF down THEN log ELSE <<entry>>

\* createAuditLog: prisma.auditLog.create, appended to the log; a refused
\* write is logged as an error and leaves the audit log as it was
CreateAuditLog(log, entry, down) == IF down THEN log ELSE Append(log, entry)

AuditedResponse_Fatal(down, out) ==
  IF down THEN Failure("AppError", "Audit log failed", "INTERNAL_ERROR") ELSE out

\* the response of a handler after `await createAuditLog(...)`: the audit
\* failure is not thrown to the handler
AuditedResponse(down, out) == out

\* the request after its createAuditLog call
Audited(rec, entry, down) ==
  [rec EXCEPT !.touched = Append(rec.touched, "audit"),
              !.logged = IF down THEN rec.logged ELSE Append(rec.logged, entry),
              !.auditLost = down]

RegisterFind(r, email, password, role) ==
  /\ CanStart(r)
  /\ LET rec == [IdleReq EXCEPT !.op = "register", !.email = email,
                                 !.password = password, !.urole = role,
                                 !.seen = FindByEmail(email)]
     IN IF EmailTaken(email)
        THEN reqs' = Finish(r, rec, UserExistsError)
        ELSE \E salt \in Salts :
               reqs' = [reqs EXCEPT ![r] = [rec EXCEPT !.pc = "createUser",
                                                       !.hash = Hash(password, salt)]]
  /\ UNCHANGED <<users, refreshTokens, resetTokens, auditLogs, now, nextTok,
                 returned, resetIssued, resetApplied, registered>>
  /\ UNCHANGED resourceVars

RegisterCreate(r) ==
  /\ reqs[r].op = "register" /\ reqs[r].pc = "createUser"
  /\ LET rec == reqs[r]
         id == Cardinality(users) + 1
     IN IF FindByEmail(rec.email) # {}
        THEN /\ reqs' = Finish(r, rec, UniqueViolation)
             /\ UNCHANGED <<users, nextTok, registered>>
        ELSE /\ nextTok <= MaxTok
             /\ users' = users \cup {NewUser(id, rec.email, rec.hash, rec.urole)}
             /\ nextTok' = nextTok + 1
             /\ registered' = registered \cup
                  {[uid |-> id, password |-> rec.password, hash |-> rec.hash]}
             /\ reqs' = [reqs EXCEPT ![r] =
                  [rec EXCEPT !.pc = "storeToken", !.uid = id,
                              !.newTok = nextTok]]
  /\ UNCHANGED <<refreshTokens, resetTokens, auditLogs, now, returned,
                 resetIssued, resetApplied>>
  /\ UNCHANGED resourceVars

RegisterStoreToken(r) ==
  /\ reqs[r].op = "register" /\ reqs[r].pc = "storeToken"
  /\ refreshTokens' = StoreRefreshToken(refreshTokens, reqs[r].newTok, reqs[r].uid, now)
  /\ reqs' = [reqs EXCEPT ![r].pc = "audit"]
  /\ UNCHANGED <<users, resetTokens, auditLogs, now, nextTok, returned,
                 resetIssued, resetApplied, registered>>
  /\ UNCHANGED resourceVars

RegisterAudit(r) ==
  /\ reqs[r].op = "register" /\ reqs[r].pc = "audit"
  /\ LET entry == AuditEntry(reqs[r].uid, "CREATE", "users", reqs[r].uid)
     IN /\ auditLogs' = CreateAuditLog(auditLogs, entry, auditDown)
        /\ reqs' = Finish(r, Audited(reqs[r], entry, auditDown),
                          AuditedResponse(auditDown,
                            Success("User registered successfully",
                                    AccessToken(reqs[r].uid, reqs[r].urole),
                                    reqs[r].newTok)))
  /\ returned' = returned \cup
       {[token |-> reqs[r].newTok, userId |-> reqs[r].uid, by |-> "register"]}
  /\ UNCHANGED <<users, refreshTokens, resetTokens, now, nextTok,
                 resetIssued, resetApplied, registered>>
  /\ UNCHANGED resourceVars

(* ------------------------------- login -------------------------------- *)
\* if (!user || !user.isActive) throw new AuthenticationError(...)
LoginUserError ==
  Failure("AuthenticationError", "Invalid credentials", "INVALID_CREDENTIALS")

LoginPasswordError_Distinct ==
  Failure("AuthenticationError", "Wrong password", "WRONG_PASSWORD")

\* if (!isPasswordValid) throw new AuthenticationError(...)
LoginPasswordError ==
  Failure("AuthenticationError", "Invalid credentials", "INVALID_CREDENTIALS")

DeleteManyByUser_None(ledger, uid) == ledger

\* prisma.refreshToken.deleteMany({ where: { userId } })
DeleteManyByUser(ledger, uid) == {t \in ledger : t.userId # uid}

\* prisma.user.update({ where: { id }, data: { lastLoginAt: new Date() } })
TouchLastLogin(us, uid, t) ==
  {IF u.id = uid THEN [u EXCEPT !.lastLoginAt = t] ELSE u : u \in us}

LoginRefused_ActiveIgnored(found) == found = {}

\* !user || !user.isActive
LoginRefused(found) == found = {} \/ \E u \in found : ~u.isActive

LoginFind(r, email, password) ==
  /\ CanStart(r)
  /\ LET found == FindByEmail(email)
         rec == [IdleReq EXCEPT !.op = "login", !.email = email,
                                 !.password = password, !.seen = found]
     IN IF LoginRefused(found)
        THEN /\ reqs' = Finish(r, rec, LoginUserError)
             /\ UNCHANGED nextTok
        ELSE LET user == CHOOSE u \in found : TRUE
             IN IF ~Compare(password, user.password)
                THEN /\ reqs' = Finish(r, rec, LoginPasswordError)
                     /\ UNCHANGED nextTok
                ELSE /\ nextTok <= MaxTok
                     /\ nextTok' = nextTok + 1
                     /\ reqs' = [reqs EXCEPT ![r] =
                          [rec EXCEPT !.pc = "deleteMany", !.uid = user.id,
                                      !.urole = user.role, !.newTok = nextTok,
                                      !.before = {t.token : t \in
                                         {x \in returned : x.userId = user.id}}]]
  /\ UNCHANGED <<users, refreshTokens, resetTokens, auditLogs, now,
                 returned, resetIssued, resetApplied, registered>>
  /\ UNCHANGED resourceVars

LoginDeleteMany(r) ==
  /\ reqs[r].op = "login" /\ reqs[r].pc = "deleteMany"
  /\ refreshTokens' = DeleteManyByUser(refreshTokens, reqs[r].uid)
  /\ reqs' = [reqs EXCEPT ![r].pc = "storeToken"]
  /\ UNCHANGED <<users, resetTokens, auditLogs, now, nextTok, returned,
                 resetIssued, resetApplied, registered>>
  /\ UNCHANGED resourceVars

LoginStoreToken(r) ==
  /\ reqs[r].op = "login" /\ reqs[r].pc = "storeToken"
  /\ refreshTokens' = StoreRefreshToken(refreshTokens, reqs[r].newTok, reqs[r].uid, now)
  /\ reqs' = [reqs EXCEPT ![r].pc = "lastLogin", ![r].at = now]
  /\ UNCHANGED <<users, resetTokens, auditLogs, now, nextTok, returned,
                 resetIssued, resetApplied, registered>>
  /\ UNCHANGED resourceVars

LoginUpdate(r) ==
  /\ reqs[r].op = "login" /\ reqs[r].pc = "lastLogin"
  /\ users' = TouchLastLogin(users, reqs[r].uid, now)
  /\ reqs' = Finish(r, reqs[r],
                    Success("Login successful",
                            AccessToken(reqs[r].uid, reqs[r].urole), reqs[r].newTok))
  /\ returned' = returned \cup
       {[token |-> reqs[r].newTok, userId |-> reqs[r].uid, by |-> "login"]}
  /\ UNCHANGED <<refreshTokens, resetTokens, auditLogs, now, nextTok,
                 resetIssued, resetApplied, registered>>
  /\ UNCHANGED resourceVars

(* ------------------------------ refresh ------------------------------- *)
InvalidTokenError == Failure("InvalidToken", "Invalid or expired token", "INVALID_TOKEN")

\* refresh(refreshToken): the ledger rows that make the token usable at time t
RefreshUsable(ledger, tok, t) ==
  {x \in ledger : x.token = tok /\ ~(t > x.expiresAt)}

RefreshLedgerAfter_Rotated(ledger, tok) == {x \in ledger : x.token # tok}

\* the ledger after a successful refresh: the token is not rotated
RefreshLedgerAfter(ledger, tok) == ledger

\* POST /auth/refresh { refreshToken } -> { accessToken }
Refresh(r, tok) ==
  /\ CanStart(r)
  /\ LET rows == {x \in refreshTokens : x.token = tok}
         ok == RefreshUsable(refreshTokens, tok, now)
         rec == [IdleReq EXCEPT !.op = "refresh", !.token = tok,
                                 !.seen = rows, !.at = now]
     IN IF ok = {}
        THEN /\ reqs' = Finish(r, rec, InvalidTokenError)
             /\ UNCHANGED refreshTokens
        ELSE LET row == CHOOSE x \in ok : TRUE
                 owner == CHOOSE u \in users : u.id = row.userId
             IN /\ reqs' = Finish(r, [rec EXCEPT !.uid = row.userId],
                                  Success("Token refreshed",
                                          AccessToken(owner.id, owner.role), 0))
                /\ refreshTokens' = RefreshLedgerAfter(refreshTokens, tok)
  /\ UNCHANGED <<users, resetTokens, auditLogs, now, nextTok,
                 returned, resetIssued, resetApplied, registered>>
  /\ UNCHANGED resourceVars

(* --------------------------- password reset --------------------------- *)
RequestResetResponse_Enumerating(found) ==
  IF found = {} THEN Failure("NotFoundError", "User not found", "NOT_FOUND")
  ELSE Success("Reset token sent", <<>>, 0)

\* res.json({ success: true, message: 'Reset token sent' }), whoever was found
RequestResetResponse(found) == Success("Reset token sent", <<>>, 0)

\* userService.requestPasswordReset(email); res.json({success: true, ...})
RequestReset(r, email) ==
  /\ CanStart(r)
  /\ LET found == FindByEmail(email)
         rec == [IdleReq EXCEPT !.op = "resetRequest", !.email = email,
                                 !.seen = found]
     IN IF found = {}
        THEN /\ UNCHANGED <<resetTokens, resetIssued, nextTok>>
             /\ reqs' = Finish(r, rec, RequestResetResponse(found))
        ELSE LET user == CHOOSE u \in found : TRUE
                 row == [token |-> nextTok, userId |-> user.id,
                         expiresAt |-> now + RESET_TOKEN_EXPIRES]
             IN /\ nextTok <= MaxTok
                /\ nextTok' = nextTok + 1
                /\ resetTokens' = resetTokens \cup {row}
                /\ resetIssued' = resetIssued \cup {row}
                /\ reqs' = Finish(r, [rec EXCEPT !.newTok = nextTok],
                                  RequestResetResponse(found))
  /\ UNCHANGED <<users, refreshTokens, auditLogs, now, returned,
                 resetApplied, registered>>
  /\ UNCHANGED resourceVars

\* the reset-ledger rows that make the token usable at time t
ResetUsable(ledger, tok, t) ==
  {x \in ledger : x.token = tok /\ ~(t > x.expiresAt)}

\* PATCH /reset-password: validate(userSchemas.resetPassword) accepted the body
ResetStart(r, tok, newPassword) ==
  /\ CanStart(r)
  /\ reqs' = [reqs EXCEPT ![r] =
       [IdleReq EXCEPT !.op = "resetPassword", !.pc = "service",
                       !.token = tok, !.password = newPassword,
                       !.before = ResetUsable(resetTokens, tok, now)]]
  /\ UNCHANGED <<users, refreshTokens, resetTokens, auditLogs, now, nextTok,
                 returned, resetIssued, resetApplied, registered>>
  /\ UNCHANGED resourceVars

ResetCommit_TokenOnly(us, ledger, row, hash) ==
  [users |-> us, resetTokens |-> ledger \ {row}, applied |-> {}]

\* completeReset, on success: the store after the hash is replaced and the
\* token consumed, both in one store operation
ResetCommit(us, ledger, row, hash) ==
  [users |-> {IF u.id = row.userId THEN [u EXCEPT !.password = hash] ELSE u : u \in us},
   resetTokens |-> ledger \ {row},
   applied |-> {row.token}]

ResetResponse_AlwaysOk(ok) == Success("Password reset successfully", <<>>, 0)

\* route outcome of PATCH /reset-password: the service threw, or returned
ResetResponse(ok) ==
  IF ok THEN Success("Password reset successfully", <<>>, 0) ELSE InvalidTokenError

\* await userService.resetPassword({token, newPassword}, req)
ResetService(r) ==
  /\ reqs[r].op = "resetPassword" /\ reqs[r].pc = "service"
  /\ LET rec == [reqs[r] EXCEPT !.at = now,
                                !.seen = {x \in resetTokens : x.token = reqs[r].token}]
         ok == ResetUsable(resetTokens, rec.token, now)
     IN IF ok = {}
        THEN /\ reqs' = Finish(r, rec, ResetResponse(FALSE))
             /\ UNCHANGED <<users, resetTokens, resetApplied>>
        ELSE \E salt \in Salts :
               LET row == CHOOSE x \in ok : TRUE
                   st == ResetCommit(users, resetTokens, row, Hash(rec.password, salt))
               IN /\ users' = st.users
                  /\ resetTokens' = st.resetTokens
                  /\ resetApplied' = resetApplied \cup st.applied
                  /\ reqs' = Finish(r, [rec EXCEPT !.uid = row.userId,
                                                   !.hash = Hash(rec.password, salt)],
                                    ResetResponse(TRUE))
  /\ UNCHANGED <<refreshTokens, auditLogs, now, nextTok, returned,
                 resetIssued, registered>>
  /\ UNCHANGED resourceVars

(* ---------------------------- deactivation ---------------------------- *)
DeniedError == Failure("AppError", "Insufficient permissions", "FORBIDDEN")

\* userService.deleteUser(id): soft delete, and revokeAll(id)
Deactivate(us, uid) ==
  {IF u.id = uid THEN [u EXCEPT !.isActive = FALSE] ELSE u : u \in us}

\* DELETE /users/:id, authenticate, authorize('ADMIN')
DeleteUser(r, caller, target) ==
  /\ CanStart(r)
  /\ caller \in {u.id : u \in {x \in users : x.isActive}}
  /\ target \in {u.id : u \in users}
  /\ LET who == CHOOSE u \in users : u.id = caller
         rec == [IdleReq EXCEPT !.op = "deleteUser", !.uid = target,
                                 !.urole = who.role]
     IN IF who.role # "ADMIN"
        THEN /\ reqs' = Finish(r, rec, DeniedError)
             /\ UNCHANGED <<users, refreshTokens>>
        ELSE /\ users' = Deactivate(users, target)
             /\ refreshTokens' = DeleteManyByUser(refreshTokens, target)
             /\ reqs' = Finish(r, rec, Success("User deleted successfully", <<>>, 0))
  /\ UNCHANGED <<resetTokens, auditLogs, now, nextTok, returned,
                 resetIssued, resetApplied, registered>>
  /\ UNCHANGED resourceVars

(* ------------------------- authorization guard ------------------------- *)
\* the login credential of the installed accounts
SeedPassword == "pw1"

\* an account created through POST /users, with its employee link
SeedUser(id, email, role, emp) ==
  [NewUser(id, email, Hash(SeedPassword, 1), role) EXCEPT !.employeeId = emp]

\* a populated installation: five accounts, two employee profiles (alice's
\* and carol's), a payroll record of each and a training record of alice
SeedUsers ==
  {SeedUser(1, "alice@x.com", "EMPLOYEE", 1),
   SeedUser(2, "bob@x.com", "EMPLOYEE", 0),
   SeedUser(3, "carol@x.com", "HR", 2),
   SeedUser(4, "dave@x.com", "ADMIN", 0),
   SeedUser(5, "erin@x.com", "MANAGER", 0)}

SeedEmployees ==
  {[id |-> 1, employmentStatus |-> "ACTIVE", managerId |-> 2],
   [id |-> 2, employmentStatus |-> "ACTIVE", managerId |-> 0]}

\* const grossPay = baseSalary + overtime + bonuses + allowances;
\* const netPay = grossPay - deductions - tax
NetPay(baseSalary, overtime, bonuses, allowances, deductions, tax) ==
  LET grossPay == baseSalary + overtime + bonuses + allowances
  IN grossPay - deductions - tax

\* a payroll row as POST / stores it
PayrollRow(id, employeeId, status, baseSalary, deductions) ==
  [id |-> id, employeeId |-> employeeId, status |-> status,
   baseSalary |-> baseSalary, overtime |-> 0, bonuses |-> 0, allowances |-> 0,
   deductions |-> deductions, tax |-> 0,
   netPay |-> NetPay(baseSalary, 0, 0, 0, deductions, 0)]

SeedPayroll ==
  {PayrollRow(1, 1, "DRAFT", 2, 0), PayrollRow(2, 2, "DRAFT", 2, 0)}

SeedTraining == {[id |-> 3, employeeId |-> 1]}

SeedDepartments == {[id |-> 1, name |-> "Sales"], [id |-> 2, name |-> "Support"]}

InitSeeded ==
  /\ users = SeedUsers
  /\ refreshTokens = {}
  /\ resetTokens = {}
  /\ auditLogs = <<>>
  /\ now = 0
  /\ nextTok = 1
  /\ reqs = [r \in Req |-> IdleReq]
  /\ returned = {}
  /\ resetIssued = {}
  /\ resetApplied = {}
  /\ registered = {}
  /\ employees = SeedEmployees
  /\ payrollRecords = SeedPayroll
  /\ trainingRecords = SeedTraining
  /\ nextId = 4
  /\ auditDown = FALSE
  /\ departments = SeedDepartments
  /\ ClientIdle

\* the request carries no Authorization header
NoToken == <<>>

\* what a request presents: an access token, and whether its signature and
\* expiry verify; the tokens are those of the users `fresh` (still valid) and
\* of the users `stale` (expired), or there is none
Credentials(fresh, stale) ==
  {[token |-> AccessToken(u.id, u.role), fresh |-> TRUE] :
     u \in {x \in SeedUsers : x.id \in fresh}}
  \cup {[token |-> AccessToken(u.id, u.role), fresh |-> FALSE] :
           u \in {x \in SeedUsers : x.id \in stale}}
  \cup {[token |-> NoToken, fresh |-> FALSE]}

\* authenticate: 401
UnauthenticatedError ==
  Failure("AuthenticationError", "Authentication required", "UNAUTHENTICATED")

\* throw new AppError('Access denied', 403)
AccessDeniedError == Failure("AppError", "Access denied", "403")

\* throw new NotFoundError(message)
NotFoundError(msg) == Failure("NotFoundError", msg, "404")

\* throw new ValidationError(message)
InvalidError(msg) == Failure("ValidationError", msg, "400")

\* prisma update / delete of a row that is gone
RecordGoneError ==
  Failure("PrismaClientKnownRequestError", "Record not found", "P2025")

\* res.status(code).json({ error: message }) of the training routes
HttpError(msg, code) == Failure("HttpError", msg, code)

Denials == {DeniedError, AccessDeniedError}

PayrollMutations == {"payrollCreate", "payrollUpdate", "payrollDelete"}

TrainingMutations == {"trainingCreate", "trainingUpdate", "trainingDelete"}

AllowedRoles_Any(op) == {"ADMIN", "HR", "MANAGER", "EMPLOYEE"}

\* one argument of authorize(...): a role name
RoleArg(role) == [array |-> FALSE, items |-> <<role>>]

\* one argument of authorize([...]) / roleMiddleware([...]): an array of roles
RoleArray(roles) == [array |-> TRUE, items |-> roles]

\* the arguments each route hands to authorize / roleMiddleware, as written
RoleArgs(op) ==
  CASE op \in {"payrollGet", "payrollList"} ->
         <<RoleArg("ADMIN"), RoleArg("HR"), RoleArg("EMPLOYEE")>>
    [] op = "trainingGet" -> <<RoleArray(<<"ADMIN", "HR", "EMPLOYEE">>)>>
    [] op = "employeeList" -> <<RoleArray(<<"ADMIN", "HR", "MANAGER">>)>>
    [] op \in TrainingMutations \cup {"employeeDelete"} ->
         <<RoleArray(<<"ADMIN", "HR">>)>>
    [] OTHER -> <<RoleArg("ADMIN"), RoleArg("HR")>>

DeclaredRoles_SpreadOnly(args) ==
  {args[j].items[1] : j \in {i \in 1..Len(args) : ~args[i].array}}

\* the allowed-role set an argument list declares: role names and the members
\* of role arrays alike
DeclaredRoles(args) ==
  UNION {{args[j].items[i] : i \in 1..Len(args[j].items)} : j \in 1..Len(args)}

\* the role set of each route
AllowedRoles(op) == DeclaredRoles(RoleArgs(op))

\* authenticate: the token is present, verifies, and names a stored user
TokenValid(cred) ==
  /\ cred.token # NoToken
  /\ cred.fresh
  /\ \E u \in users : u.id = cred.token[2]

\* req.user: id and role of the token, employee link of the stored user
ResolveCaller(tok) ==
  LET u == CHOOSE x \in users : x.id = tok[2]
  IN [id |-> u.id, role |-> tok[3], employeeId |-> u.employeeId]

GuardDecision_RoleFirst(cred, allowed) ==
  IF cred.token # NoToken /\ cred.token[3] \notin allowed THEN "Denied"
  ELSE IF ~TokenValid(cred) THEN "Unauthenticated"
  ELSE "Authorized"

\* authenticate, then authorize(...roles): the order of the route's middleware
GuardDecision(cred, allowed) ==
  IF ~TokenValid(cred) THEN "Unauthenticated"
  ELSE IF cred.token[3] \notin allowed THEN "Denied"
  ELSE "Authorized"

OwnsRecord_Always(user, record) == TRUE

\* req.user.employee?.id !== record.employeeId, negated
OwnsRecord(user, record) ==
  user.employeeId # 0 /\ user.employeeId = record.employeeId

\* employeeOwnRecordMiddleware('trainingRecord'): an EMPLOYEE passes for a
\* record of their own (the handler answers for a record that is absent)
EmployeeOwnRecord(user, rows) ==
  user.role # "EMPLOYEE" \/ \A x \in rows : OwnsRecord(user, x)

\* requests past the guard whose handler has not answered yet
InFlight == {q \in Req : reqs[q].pc \notin {"idle", "done"}}

\* the middleware chain of a guarded route, up to the handler
Authorize(r, op, cred, id, body) ==
  /\ CanStart(r)
  /\ Len(auditLogs) + Cardinality(InFlight) < MaxAudit
  /\ LET decision == GuardDecision(cred, AllowedRoles(op))
         caller == IF decision = "Unauthenticated" THEN NoUser
                   ELSE ResolveCaller(cred.token)
         rows == IF op = "trainingGet" /\ decision = "Authorized"
                 THEN {x \in trainingRecords : x.id = id} ELSE {}
         rec == [IdleReq EXCEPT !.op = op, !.access = cred.token,
                                 !.verified = cred.fresh, !.rid = id,
                                 !.body = body, !.user = caller,
                                 !.before = rows]
     IN reqs' =
          IF decision = "Unauthenticated" THEN Finish(r, rec, UnauthenticatedError)
          ELSE IF decision = "Denied" THEN Finish(r, rec, DeniedError)
          ELSE IF op = "trainingGet" /\ ~EmployeeOwnRecord(caller, rows)
               THEN Finish(r, rec, DeniedError)
          ELSE [reqs EXCEPT ![r] = [rec EXCEPT !.pc = "handler"]]
  /\ UNCHANGED <<users, refreshTokens, resetTokens, auditLogs, now, nextTok,
                 returned, resetIssued, resetApplied, registered>>
  /\ UNCHANGED resourceVars

\* the audit store stops, or resumes, accepting writes
AuditStoreFlip ==
  /\ auditDown' = ~auditDown
  /\ UNCHANGED <<users, refreshTokens, resetTokens, auditLogs, now, nextTok,
                 reqs, returned, resetIssued, resetApplied, registered,
                 employees, payrollRecords, trainingRecords, nextId,
                 departments, clientVars>>

\* the handler of request r did one more store operation
Touch(rec, what) == [rec EXCEPT !.touched = Append(rec.touched, what)]

ReadOps == {"payrollGet", "payrollList", "employeeList", "userGet"}

DepartmentMutations == {"departmentCreate", "departmentUpdate"}

AuditAction(op) ==
  CASE op \in ReadOps -> "READ"
    [] op \in {"payrollCreate", "departmentCreate"} -> "CREATE"
    [] op \in {"payrollUpdate", "departmentUpdate"} -> "UPDATE"
    [] OTHER -> "DELETE"

AuditResource(op) ==
  IF op \in {"employeeDelete", "employeeList"} THEN "employees"
  ELSE IF op = "userGet" THEN "users"
  ELSE IF op \in DepartmentMutations THEN "department"
  ELSE "payroll_records"

\* res.json({ success: true, message })
HandlerSuccess(op) ==
  CASE op \in {"payrollGet", "payrollList", "employeeList"} -> Success("", <<>>, 0)
    [] op = "userGet" -> Success("User fetched successfully", <<>>, 0)
    [] op = "payrollCreate" -> Success("Payroll record created successfully", <<>>, 0)
    [] op = "payrollUpdate" -> Success("Payroll record updated successfully", <<>>, 0)
    [] op = "payrollDelete" -> Success("Payroll record deleted successfully", <<>>, 0)
    [] op = "departmentCreate" -> Success("Department created successfully", <<>>, 0)
    [] op = "departmentUpdate" -> Success("Department updated successfully", <<>>, 0)
    [] OTHER -> Success("Employee terminated successfully", <<>>, 0)

AuditedOps ==
  ReadOps \cup {"employeeDelete"} \cup PayrollMutations \cup DepartmentMutations

\* await createAuditLog(req.user.id, action, resource, id, ...); res.json(...)
AuditAndRespond(r) ==
  /\ reqs[r].op \in AuditedOps /\ reqs[r].pc = "audit"
  /\ LET rec == reqs[r]
         entry == AuditEntry(rec.user.id, AuditAction(rec.op),
                             AuditResource(rec.op), rec.rid)
     IN /\ auditLogs' = CreateAuditLog(auditLogs, entry, auditDown)
        /\ reqs' = Finish(r, Audited(rec, entry, auditDown),
                          AuditedResponse(auditDown, HandlerSuccess(rec.op)))
  /\ UNCHANGED <<users, refreshTokens, resetTokens, now, nextTok,
                 returned, resetIssued, resetApplied, registered>>
  /\ UNCHANGED resourceVars

\* the stores a payroll or training handler step leaves alone
UnchangedIdentity ==
  UNCHANGED <<users, refreshTokens, resetTokens, auditLogs, now, nextTok,
              returned, resetIssued, resetApplied, registered, employees,
              auditDown, departments, clientVars>>

\* GET /audit-logs and GET /audit-logs/:id: the guard, then a handler that
\* answers without a store operation
AuditLogGet(r, cred, id) ==
  /\ CanStart(r)
  /\ LET decision == GuardDecision(cred, {"ADMIN", "HR"})
         caller == IF decision = "Unauthenticated" THEN NoUser
                   ELSE ResolveCaller(cred.token)
         rec == [IdleReq EXCEPT !.op = "auditLogGet", !.access = cred.token,
                                 !.verified = cred.fresh, !.rid = id,
                                 !.user = caller]
     IN reqs' =
          IF decision = "Unauthenticated" THEN Finish(r, rec, UnauthenticatedError)
          ELSE IF decision = "Denied" THEN Finish(r, rec, DeniedError)
          ELSE Finish(r, rec, Success("", <<>>, 0))
  /\ UNCHANGED <<users, refreshTokens, resetTokens, auditLogs, now, nextTok,
                 returned, resetIssued, resetApplied, registered>>
  /\ UNCHANGED resourceVars

\* throw new AppError('Unauthorized access', 403)
UnauthorizedAccessError == Failure("AppError", "Unauthorized access", "403")

UserReadAllowed_Anyone(user, id) == TRUE

\* id !== req.user.id && !['ADMIN', 'HR'].includes(req.user.role), negated
UserReadAllowed(user, id) == id = user.id \/ user.role \in {"ADMIN", "HR"}

\* GET /users/:id: authenticate, then the handler's test of the caller
UserGetStart(r, cred, id) ==
  /\ CanStart(r)
  /\ Len(auditLogs) + Cardinality(InFlight) < MaxAudit
  /\ LET caller == IF TokenValid(cred) THEN ResolveCaller(cred.token) ELSE NoUser
         rec == [IdleReq EXCEPT !.op = "userGet", !.access = cred.token,
                                 !.verified = cred.fresh, !.rid = id,
                                 !.user = caller]
     IN reqs' =
          IF ~TokenValid(cred) THEN Finish(r, rec, UnauthenticatedError)
          ELSE IF ~UserReadAllowed(caller, id)
               THEN Finish(r, rec, UnauthorizedAccessError)
          ELSE [reqs EXCEPT ![r] = [rec EXCEPT !.pc = "handler"]]
  /\ UNCHANGED <<users, refreshTokens, resetTokens, auditLogs, now, nextTok,
                 returned, resetIssued, resetApplied, registered>>
  /\ UNCHANGED resourceVars

\* await userService.getUser(id); 404 when there is none
UserGetFind(r) ==
  /\ reqs[r].op = "userGet" /\ reqs[r].pc = "handler"
  /\ LET rows == UserById(reqs[r].rid)
         rec == [Touch(reqs[r], "read") EXCEPT !.seen = rows]
     IN reqs' =
          IF rows = {} THEN Finish(r, rec, Failure("AppError", "User not found", "404"))
          ELSE [reqs EXCEPT ![r] = [rec EXCEPT !.pc = "audit"]]
  /\ UnchangedIdentity
  /\ UNCHANGED <<payrollRecords, trainingRecords, nextId>>

\* GET /employees: the subordinates of a MANAGER with an employee profile
\* (findMany where managerId), then findMany and count under the filters
EmployeeListFind(r) ==
  /\ reqs[r].op = "employeeList" /\ reqs[r].pc \in {"handler", "scoped"}
  /\ LET rec == Touch(reqs[r], "read")
         scoped == rec.user.role = "MANAGER" /\ rec.user.employeeId # 0
         team == {x \in employees : x.managerId = rec.user.employeeId}
         rows == {x \in employees :
                    /\ rec.body.status # "" => x.employmentStatus = rec.body.status
                    /\ scoped => (x \in rec.before \/ x.id = rec.user.employeeId)}
     IN reqs' =
          IF scoped /\ rec.pc = "handler"
          THEN [reqs EXCEPT ![r] = [rec EXCEPT !.pc = "scoped", !.before = team]]
          ELSE [reqs EXCEPT ![r] = [rec EXCEPT !.pc = "audit", !.seen = rows]]
  /\ UnchangedIdentity
  /\ UNCHANGED <<payrollRecords, trainingRecords, nextId>>

(* ------------------------------ payroll -------------------------------- *)
\* GET /:id: findUnique, the own-record check of an EMPLOYEE
PayrollGetFind(r) ==
  /\ reqs[r].op = "payrollGet" /\ reqs[r].pc = "handler"
  /\ LET rows == {x \in payrollRecords : x.id = reqs[r].rid}
         rec == [Touch(reqs[r], "read") EXCEPT !.seen = rows]
     IN reqs' =
          IF rows = {} THEN Finish(r, rec, NotFoundError("Payroll record not found"))
          ELSE IF rec.user.role = "EMPLOYEE"
                  /\ ~OwnsRecord(rec.user, CHOOSE x \in rows : TRUE)
               THEN Finish(r, rec, AccessDeniedError)
          ELSE [reqs EXCEPT ![r] = [rec EXCEPT !.pc = "audit"]]
  /\ UnchangedIdentity
  /\ UNCHANGED <<payrollRecords, trainingRecords, nextId>>

\* the `where` of GET /: the employeeId and status filters of the query; the
\* employeeId is replaced by the caller's own when the caller is an EMPLOYEE
\* with an employee profile
PayrollListWhere(user, query, row) ==
  LET employeeId == IF user.role = "EMPLOYEE" /\ user.employeeId # 0
                    THEN user.employeeId ELSE query.employeeId
  IN /\ employeeId # 0 => row.employeeId = employeeId
     /\ query.status # "" => row.status = query.status

\* GET /: findMany and count (first page, the limit not reached)
PayrollListFind(r) ==
  /\ reqs[r].op = "payrollList" /\ reqs[r].pc = "handler"
  /\ LET rows == {x \in payrollRecords :
                    PayrollListWhere(reqs[r].user, reqs[r].body, x)}
         rec == [Touch(reqs[r], "read") EXCEPT !.seen = rows]
     IN reqs' = [reqs EXCEPT ![r] = [rec EXCEPT !.pc = "audit"]]
  /\ UnchangedIdentity
  /\ UNCHANGED <<payrollRecords, trainingRecords, nextId>>

\* POST /: prisma.employee.findUnique({ where: { id: employeeId } })
PayrollCreateFind(r) ==
  /\ reqs[r].op = "payrollCreate" /\ reqs[r].pc = "handler"
  /\ LET rec == Touch(reqs[r], "read")
     IN reqs' =
          IF ~\E e \in employees : e.id = rec.body.employeeId
          THEN Finish(r, rec, InvalidError("Employee not found"))
          ELSE [reqs EXCEPT ![r] = [rec EXCEPT !.pc = "write"]]
  /\ UnchangedIdentity
  /\ UNCHANGED <<payrollRecords, trainingRecords, nextId>>

\* z.number().min(0).optional().default(0)
Default0(x) == IF x = Undefined THEN 0 ELSE x

\* the row POST / creates: the body's amounts, the defaults of the absent
\* ones, and the netPay computed from them
NewPayrollRecord(id, body) ==
  LET overtime == Default0(body.overtime)
      bonuses == Default0(body.bonuses)
      allowances == Default0(body.allowances)
      deductions == Default0(body.deductions)
      tax == Default0(body.tax)
  IN [id |-> id, employeeId |-> body.employeeId, status |-> body.status,
      baseSalary |-> body.baseSalary, overtime |-> overtime,
      bonuses |-> bonuses, allowances |-> allowances,
      deductions |-> deductions, tax |-> tax,
      netPay |-> NetPay(body.baseSalary, overtime, bonuses, allowances,
                        deductions, tax)]

\* POST /: prisma.payrollRecord.create
PayrollCreate(r) ==
  /\ reqs[r].op = "payrollCreate" /\ reqs[r].pc = "write"
  /\ nextId <= MaxId
  /\ payrollRecords' = payrollRecords \cup
       {NewPayrollRecord(nextId, reqs[r].body)}
  /\ nextId' = nextId + 1
  /\ reqs' = [reqs EXCEPT ![r] =
       [Touch(reqs[r], "write") EXCEPT !.pc = "audit", !.rid = nextId]]
  /\ UnchangedIdentity
  /\ UNCHANGED trainingRecords

\* PUT /:id: findUnique of the record, and of the employee the body names
PayrollUpdateFind(r) ==
  /\ reqs[r].op = "payrollUpdate" /\ reqs[r].pc = "handler"
  /\ LET rows == {x \in payrollRecords : x.id = reqs[r].rid}
         rec == [Touch(reqs[r], "read") EXCEPT !.seen = rows]
     IN reqs' =
          IF rows = {} THEN Finish(r, rec, NotFoundError("Payroll record not found"))
          ELSE IF rec.body.employeeId # 0
                  /\ ~\E e \in employees : e.id = rec.body.employeeId
               THEN Finish(r, rec, InvalidError("Employee not found"))
          ELSE [reqs EXCEPT ![r] = [rec EXCEPT !.pc = "write"]]
  /\ UnchangedIdentity
  /\ UNCHANGED <<payrollRecords, trainingRecords, nextId>>

\* updateData[key] ?? existingRecord[key]
Coalesce(x, y) == IF x = Undefined THEN y ELSE x

\* the body carries at least one amount
HasAmount(body) ==
  \E x \in {body.baseSalary, body.overtime, body.bonuses, body.allowances,
             body.deductions, body.tax} : x # Undefined

\* updateData.netPay: recomputed from the body's amounts and, for the absent
\* ones, from the record as the handler read it; absent when the body carries
\* no amount
UpdatedNetPay(existing, body) ==
  IF HasAmount(body)
  THEN NetPay(Coalesce(body.baseSalary, existing.baseSalary),
              Coalesce(body.overtime, existing.overtime),
              Coalesce(body.bonuses, existing.bonuses),
              Coalesce(body.allowances, existing.allowances),
              Coalesce(body.deductions, existing.deductions),
              Coalesce(body.tax, existing.tax))
  ELSE Undefined

\* data: updateData, the fields the body carries and the recomputed netPay
ApplyUpdate(row, body, netPay) ==
  [row EXCEPT !.employeeId = IF body.employeeId # 0 THEN body.employeeId ELSE @,
              !.status = IF body.status # "" THEN body.status ELSE @,
              !.baseSalary = Coalesce(body.baseSalary, @),
              !.overtime = Coalesce(body.overtime, @),
              !.bonuses = Coalesce(body.bonuses, @),
              !.allowances = Coalesce(body.allowances, @),
              !.deductions = Coalesce(body.deductions, @),
              !.tax = Coalesce(body.tax, @),
              !.netPay = IF HasAmount(body) THEN netPay ELSE @]

\* PUT /:id: prisma.payrollRecord.update({ where: { id }, data })
PayrollUpdate(r) ==
  /\ reqs[r].op = "payrollUpdate" /\ reqs[r].pc = "write"
  /\ LET rows == {x \in payrollRecords : x.id = reqs[r].rid}
         rec == Touch(reqs[r], "write")
     IN IF rows = {}
        THEN /\ reqs' = Finish(r, rec, RecordGoneError)
             /\ UNCHANGED payrollRecords
        ELSE /\ payrollRecords' =
                  {IF x.id = rec.rid
                   THEN ApplyUpdate(x, rec.body,
                          UpdatedNetPay(CHOOSE e \in rec.seen : TRUE, rec.body))
                   ELSE x : x \in payrollRecords}
             /\ reqs' = [reqs EXCEPT ![r] = [rec EXCEPT !.pc = "audit"]]
  /\ UnchangedIdentity
  /\ UNCHANGED <<trainingRecords, nextId>>

\* DELETE /:id: findUnique, the refusal of processed and paid records
PayrollDeleteFind(r) ==
  /\ reqs[r].op = "payrollDelete" /\ reqs[r].pc = "handler"
  /\ LET rows == {x \in payrollRecords : x.id = reqs[r].rid}
         rec == [Touch(reqs[r], "read") EXCEPT !.seen = rows]
     IN reqs' =
          IF rows = {} THEN Finish(r, rec, NotFoundError("Payroll record not found"))
          ELSE IF \E x \in rows : x.status \in {"PROCESSED", "PAID"}
               THEN Finish(r, rec,
                      InvalidError("Cannot delete processed or paid payroll records"))
          ELSE [reqs EXCEPT ![r] = [rec EXCEPT !.pc = "write"]]
  /\ UnchangedIdentity
  /\ UNCHANGED <<payrollRecords, trainingRecords, nextId>>

\* DELETE /:id: prisma.payrollRecord.delete({ where: { id } })
PayrollDelete(r) ==
  /\ reqs[r].op = "payrollDelete" /\ reqs[r].pc = "write"
  /\ LET rows == {x \in payrollRecords : x.id = reqs[r].rid}
         rec == Touch(reqs[r], "write")
     IN IF rows = {}
        THEN /\ reqs' = Finish(r, rec, RecordGoneError)
             /\ UNCHANGED payrollRecords
        ELSE /\ payrollRecords' = payrollRecords \ rows
             /\ reqs' = [reqs EXCEPT ![r] = [rec EXCEPT !.pc = "audit"]]
  /\ UnchangedIdentity
  /\ UNCHANGED <<trainingRecords, nextId>>

(* ------------------------------ training ------------------------------- *)
\* GET /:id: findUnique; res.json(record)
TrainingGet(r) ==
  /\ reqs[r].op = "trainingGet" /\ reqs[r].pc = "handler"
  /\ LET rows == {x \in trainingRecords : x.id = reqs[r].rid}
         rec == [Touch(reqs[r], "read") EXCEPT !.seen = rows]
     IN reqs' =
          IF rows = {} THEN Finish(r, rec, HttpError("Record not found", "404"))
          ELSE Finish(r, rec, Success("", <<>>, 0))
  /\ UnchangedIdentity
  /\ UNCHANGED <<payrollRecords, trainingRecords, nextId>>

\* POST /: prisma.trainingRecord.create({ data: req.body }); res.status(201)
TrainingCreate(r) ==
  /\ reqs[r].op = "trainingCreate" /\ reqs[r].pc = "handler"
  /\ LET rec == Touch(reqs[r], "write")
     IN /\ nextId <= MaxId
        /\ trainingRecords' = trainingRecords \cup
             {[id |-> nextId, employeeId |-> rec.body.employeeId]}
        /\ nextId' = nextId + 1
        /\ reqs' = Finish(r, [rec EXCEPT !.rid = nextId], Success("", <<>>, 0))
  /\ UnchangedIdentity
  /\ UNCHANGED payrollRecords

\* PUT /:id: prisma.trainingRecord.update({ where: { id }, data: req.body })
TrainingUpdate(r) ==
  /\ reqs[r].op = "trainingUpdate" /\ reqs[r].pc = "handler"
  /\ LET rows == {x \in trainingRecords : x.id = reqs[r].rid}
         rec == Touch(reqs[r], "write")
     IN IF rows = {}
        THEN /\ reqs' = Finish(r, rec, HttpError("Record not found", "404"))
             /\ UNCHANGED trainingRecords
        ELSE /\ trainingRecords' =
                  {IF x.id = rec.rid
                   THEN [x EXCEPT !.employeeId = rec.body.employeeId] ELSE x :
                     x \in trainingRecords}
             /\ reqs' = Finish(r, rec, Success("", <<>>, 0))
  /\ UnchangedIdentity
  /\ UNCHANGED <<payrollRecords, nextId>>

\* DELETE /:id: prisma.trainingRecord.delete({ where: { id } })
TrainingDelete(r) ==
  /\ reqs[r].op = "trainingDelete" /\ reqs[r].pc = "handler"
  /\ LET rows == {x \in trainingRecords : x.id = reqs[r].rid}
         rec == Touch(reqs[r], "write")
     IN IF rows = {}
        THEN /\ reqs' = Finish(r, rec, HttpError("Record not found", "404"))
             /\ UNCHANGED trainingRecords
        ELSE /\ trainingRecords' = trainingRecords \ rows
             /\ reqs' = Finish(r, rec, Success("Training record deleted", <<>>, 0))
  /\ UnchangedIdentity
  /\ UNCHANGED <<payrollRecords, nextId>>

(* ------------------------ employee termination ------------------------- *)
\* DELETE /employees/:id: findUnique with the active subordinates
EmployeeDeleteFind(r) ==
  /\ reqs[r].op = "employeeDelete" /\ reqs[r].pc = "handler"
  /\ LET rows == {e \in employees : e.id = reqs[r].rid}
         subordinates == {e \in employees : e.managerId = reqs[r].rid
                                            /\ e.employmentStatus = "ACTIVE"}
         rec == [Touch(reqs[r], "read") EXCEPT !.seen = rows]
     IN reqs' =
          IF rows = {} THEN Finish(r, rec, NotFoundError("Employee not found"))
          ELSE IF \E e \in rows : e.employmentStatus = "TERMINATED"
               THEN Finish(r, rec, InvalidError("Employee is already terminated"))
          ELSE IF subordinates # {}
               THEN Finish(r, rec,
                      InvalidError("Cannot terminate employee with active subordinates"))
          ELSE [reqs EXCEPT ![r] = [rec EXCEPT !.pc = "write"]]
  /\ UNCHANGED <<users, refreshTokens, resetTokens, auditLogs, now, nextTok,
                 returned, resetIssued, resetApplied, registered>>
  /\ UNCHANGED resourceVars

\* prisma.employee.update: employmentStatus 'TERMINATED'
EmployeeTerminate(r) ==
  /\ reqs[r].op = "employeeDelete" /\ reqs[r].pc = "write"
  /\ employees' = {IF e.id = reqs[r].rid
                   THEN [e EXCEPT !.employmentStatus = "TERMINATED"] ELSE e :
                     e \in employees}
  /\ reqs' = [reqs EXCEPT ![r] = [Touch(reqs[r], "write") EXCEPT !.pc = "deactivate"]]
  /\ UNCHANGED <<users, refreshTokens, resetTokens, auditLogs, now, nextTok,
                 returned, resetIssued, resetApplied, registered,
                 payrollRecords, trainingRecords, nextId, auditDown,
                 departments, clientVars>>

DeactivateByEmployee_Remove(us, eid) == {u \in us : u.employeeId # eid}

\* prisma.user.updateMany({ where: { employee: { id } }, data: { isActive: false } })
DeactivateByEmployee(us, eid) ==
  {IF u.employeeId = eid THEN [u EXCEPT !.isActive = FALSE] ELSE u : u \in us}

\* the user account of the terminated employee is deactivated
EmployeeDeactivateUser(r) ==
  /\ reqs[r].op = "employeeDelete" /\ reqs[r].pc = "deactivate"
  /\ users' = DeactivateByEmployee(users, reqs[r].rid)
  /\ reqs' = [reqs EXCEPT ![r] = [Touch(reqs[r], "write") EXCEPT !.pc = "audit"]]
  /\ UNCHANGED <<refreshTokens, resetTokens, auditLogs, now, nextTok,
                 returned, resetIssued, resetApplied, registered>>
  /\ UNCHANGED resourceVars

\* a store operation rejected by the database (the connection is lost, a
\* constraint fails): the error reaches next(error)
StoreError == Failure("Error", "Internal server error", "500")

\* the store write request r is waiting for is rejected: refreshToken.create
\* of a register, user.updateMany of an employee termination; the handler's
\* catch block hands the error on and undoes nothing
StoreWriteFails(r) ==
  /\ \/ reqs[r].op = "register" /\ reqs[r].pc = "storeToken"
     \/ reqs[r].op = "employeeDelete" /\ reqs[r].pc = "deactivate"
  /\ reqs' = Finish(r, reqs[r], StoreError)
  /\ UNCHANGED <<users, refreshTokens, resetTokens, auditLogs, now, nextTok,
                 returned, resetIssued, resetApplied, registered>>
  /\ UNCHANGED resourceVars

(* ----------------------------- departments ---------------------------- *)
\* prisma.department.findFirst({ where: { name } })
FindDepartmentByName(name) == {d \in departments : d.name = name}

\* the stores a department handler step leaves alone
UnchangedButDepartments ==
  UNCHANGED <<users, refreshTokens, resetTokens, auditLogs, now, nextTok,
              returned, resetIssued, resetApplied, registered, employees,
              payrollRecords, trainingRecords, nextId, auditDown, clientVars>>

\* POST /: the name must not be taken (the body names no manager or parent)
DepartmentCreateFind(r) ==
  /\ reqs[r].op = "departmentCreate" /\ reqs[r].pc = "handler"
  /\ LET rec == [Touch(reqs[r], "read") EXCEPT
                   !.seen = FindDepartmentByName(reqs[r].body.name)]
     IN reqs' =
          IF rec.seen # {}
          THEN Finish(r, rec, InvalidError("Department name already exists"))
          ELSE [reqs EXCEPT ![r] = [rec EXCEPT !.pc = "write"]]
  /\ UNCHANGED departments
  /\ UnchangedButDepartments

\* POST /: prisma.department.create
DepartmentCreate(r) ==
  /\ reqs[r].op = "departmentCreate" /\ reqs[r].pc = "write"
  /\ Cardinality(departments) < MaxDept
  /\ LET id == Cardinality(departments) + 1
     IN /\ departments' = departments \cup {[id |-> id, name |-> reqs[r].body.name]}
        /\ reqs' = [reqs EXCEPT ![r] =
             [Touch(reqs[r], "write") EXCEPT !.pc = "audit", !.rid = id]]
  /\ UnchangedButDepartments

\* PUT /:id: findUnique of the department; a new name is looked up next
DepartmentUpdateFind(r) ==
  /\ reqs[r].op = "departmentUpdate" /\ reqs[r].pc = "handler"
  /\ LET rows == {d \in departments : d.id = reqs[r].rid}
         rec == [Touch(reqs[r], "read") EXCEPT !.seen = rows]
         renamed == rec.body.name # "" /\ \E d \in rows : d.name # rec.body.name
     IN reqs' =
          IF rows = {}
          THEN Finish(r, rec, Failure("AppError", "Department not found", "404"))
          ELSE [reqs EXCEPT ![r] =
                  [rec EXCEPT !.pc = IF renamed THEN "check" ELSE "write"]]
  /\ UNCHANGED departments
  /\ UnchangedButDepartments

\* PUT /:id: the new name must not be taken
DepartmentUpdateCheck(r) ==
  /\ reqs[r].op = "departmentUpdate" /\ reqs[r].pc = "check"
  /\ LET rec == Touch(reqs[r], "read")
     IN reqs' =
          IF FindDepartmentByName(rec.body.name) # {}
          THEN Finish(r, rec, InvalidError("Department name already exists"))
          ELSE [reqs EXCEPT ![r] = [rec EXCEPT !.pc = "write"]]
  /\ UNCHANGED departments
  /\ UnchangedButDepartments

\* PUT /:id: prisma.department.update({ where: { id }, data: { name } })
DepartmentUpdate(r) ==
  /\ reqs[r].op = "departmentUpdate" /\ reqs[r].pc = "write"
  /\ LET rec == Touch(reqs[r], "write")
     IN /\ departments' =
             {IF d.id = rec.rid /\ rec.body.name # ""
              THEN [d EXCEPT !.name = rec.body.name] ELSE d : d \in departments}
        /\ reqs' = [reqs EXCEPT ![r] = [rec EXCEPT !.pc = "audit"]]
  /\ UnchangedButDepartments

(* ----------------------------- API client ----------------------------- *)
\* the statuses a server can answer with
Statuses == {200, 401, 500}

\* the access tokens a refresh can answer with
FreshTokens == {1, 2}

\* localStorage.removeItem('accessToken'); localStorage.removeItem('refreshToken')
ClearedStorage == [accessToken |-> 0, refreshToken |-> 0]

\* api.<method>(...): the request interceptor adds the stored access token
ClientSend(c) ==
  /\ calls[c].pc = "idle"
  /\ calls' = [calls EXCEPT ![c] = [IdleCall EXCEPT !.pc = "sent", !.sends = 1,
                                       !.auth = localStorage.accessToken]]
  /\ UNCHANGED <<localStorage, location>>
  /\ UNCHANGED <<users, refreshTokens, resetTokens, auditLogs, now, nextTok,
                 reqs, returned, resetIssued, resetApplied, registered,
                 employees, payrollRecords, trainingRecords, nextId, auditDown,
                 departments>>

RetryConfig_Dropped(config) == [config EXCEPT !.retry = FALSE]

\* api(originalRequest): the config is merged into a new request; axios keeps
\* the keys it does not know, _retry among them
RetryConfig(config) == config

\* the response interceptor: a 2xx is handed on; a 401 on a request not yet
\* retried marks it and starts a refresh when a refresh token is stored, or
\* clears the storage and goes to /login when none is; any other error, and
\* a 401 on a retried request, is rejected
ClientResponse(c, status) ==
  /\ calls[c].pc = "sent"
  /\ LET call == [calls[c] EXCEPT !.status = status]
     IN IF status = 200
        THEN /\ calls' = [calls EXCEPT ![c] = [call EXCEPT !.pc = "resolved"]]
             /\ UNCHANGED <<localStorage, location>>
        ELSE IF status = 401 /\ ~call.retry
        THEN IF localStorage.refreshToken # 0
             THEN /\ calls' = [calls EXCEPT ![c] =
                       [call EXCEPT !.retry = TRUE, !.pc = "refreshing",
                                    !.refreshes = @ + 1]]
                  /\ UNCHANGED <<localStorage, location>>
             ELSE /\ calls' = [calls EXCEPT ![c] =
                       [call EXCEPT !.retry = TRUE, !.pc = "rejected"]]
                  /\ localStorage' = ClearedStorage
                  /\ location' = "/login"
        ELSE /\ calls' = [calls EXCEPT ![c] = [call EXCEPT !.pc = "rejected"]]
             /\ UNCHANGED <<localStorage, location>>
  /\ UNCHANGED <<users, refreshTokens, resetTokens, auditLogs, now, nextTok,
                 reqs, returned, resetIssued, resetApplied, registered,
                 employees, payrollRecords, trainingRecords, nextId, auditDown,
                 departments>>

\* the answer to axios.post('/auth/refresh'): the new access token is stored
\* and the request is sent again through `api`; on a failure the storage is
\* cleared, the page goes to /login and the first error is rejected
ClientRefreshResponse(c, ok, token) ==
  /\ calls[c].pc = "refreshing"
  /\ IF ok
     THEN /\ localStorage' = [localStorage EXCEPT !.accessToken = token]
          /\ calls' = [calls EXCEPT ![c] =
               [RetryConfig(calls[c]) EXCEPT !.pc = "sent", !.sends = @ + 1,
                                            !.auth = token]]
          /\ UNCHANGED location
     ELSE /\ localStorage' = ClearedStorage
          /\ location' = "/login"
          /\ calls' = [calls EXCEPT ![c].pc = "rejected"]
  /\ UNCHANGED <<users, refreshTokens, resetTokens, auditLogs, now, nextTok,
                 reqs, returned, resetIssued, resetApplied, registered,
                 employees, payrollRecords, trainingRecords, nextId, auditDown,
                 departments>>

\* the caller has the result; the slot serves a new request
ClientNext(c) ==
  /\ calls[c].pc \in {"resolved", "rejected"}
  /\ calls' = [calls EXCEPT ![c] = IdleCall]
  /\ UNCHANGED <<localStorage, location>>
  /\ UNCHANGED <<users, refreshTokens, resetTokens, auditLogs, now, nextTok,
                 reqs, returned, resetIssued, resetApplied, registered,
                 employees, payrollRecords, trainingRecords, nextId, auditDown,
                 departments>>

\* the client alone, with any tokens in its storage
InitClient ==
  /\ users = {}
  /\ refreshTokens = {}
  /\ resetTokens = {}
  /\ auditLogs = <<>>
  /\ now = 0
  /\ nextTok = 1
  /\ reqs = [r \in Req |-> IdleReq]
  /\ returned = {}
  /\ resetIssued = {}
  /\ resetApplied = {}
  /\ registered = {}
  /\ employees = {}
  /\ payrollRecords = {}
  /\ trainingRecords = {}
  /\ nextId = 1
  /\ auditDown = FALSE
  /\ departments = {}
  /\ calls = [c \in Call |-> IdleCall]
  /\ localStorage \in [accessToken : {0, 1}, refreshToken : {0, 1}]
  /\ location = "/"

(* --------------------------- specifications --------------------------- *)
\* POST /register with inputs drawn from E, P and R
RegisterSteps(E, P, R) ==
  \/ \E r \in Req, e \in E, p \in P, ro \in R : RegisterFind(r, e, p, ro)
  \/ \E r \in Req : RegisterCreate(r)
  \/ \E r \in Req : RegisterStoreToken(r)
  \/ \E r \in Req : RegisterAudit(r)

\* POST /login with inputs drawn from E and P
LoginSteps(E, P) ==
  \/ \E r \in Req, e \in E, p \in P : LoginFind(r, e, p)
  \/ \E r \in Req : LoginDeleteMany(r)
  \/ \E r \in Req : LoginStoreToken(r)
  \/ \E r \in Req : LoginUpdate(r)

\* registration, login and deactivation
Next ==
  \/ \E r \in Req : Recycle(r)
  \/ RegisterSteps(Emails, Passwords, RegisterRoles)
  \/ LoginSteps(Emails, Passwords)
  \/ \E r \in Req, c \in 1..Cardinality(Emails), t \in 1..Cardinality(Emails) :
       DeleteUser(r, c, t)

Spec == Init /\ [][Next]_vars

\* login and refresh, with the clock
NextRefresh ==
  \/ Tick(MaxNow)
  \/ \E r \in Req : Recycle(r)
  \/ RegisterSteps(Emails, {"pw1"}, {"EMPLOYEE"})
  \/ LoginSteps(Emails, {"pw1"})
  \/ \E r \in Req, t \in 1..MaxTok : Refresh(r, t)

SpecRefresh == Init /\ [][NextRefresh]_vars

\* the password reset flow, with the clock
NextReset ==
  \/ Tick(MaxResetNow)
  \/ \E r \in Req : Recycle(r)
  \/ RegisterSteps(Emails, {"pw1"}, {"EMPLOYEE"})
  \/ \E r \in Req, e \in Emails : RequestReset(r, e)
  \/ \E r \in Req, t \in 1..MaxTok, p \in Passwords : ResetStart(r, t, p)
  \/ \E r \in Req : ResetService(r)

SpecReset == Init /\ [][NextReset]_vars

GuardedRoutes ==
  {"payrollGet", "trainingGet"} \cup PayrollMutations \cup TrainingMutations

\* req.params.id of a request
RequestIds(op) ==
  IF op \in {"payrollCreate", "trainingCreate", "payrollList", "employeeList"}
  THEN {0}
  ELSE IF op \in {"trainingGet", "trainingUpdate", "trainingDelete"} THEN {3}
  ELSE {1, 2}

\* req.body of a request, as its validation schema admits it; employee id 3
\* names no employee
RequestBodies(op) ==
  CASE op = "payrollCreate" ->
         {[NoBody EXCEPT !.employeeId = e, !.status = "DRAFT", !.baseSalary = 1] :
            e \in {2, 3}}
    [] op = "payrollUpdate" -> {[NoBody EXCEPT !.status = "PROCESSED"]}
    [] op \in {"trainingCreate", "trainingUpdate"} ->
         {[NoBody EXCEPT !.employeeId = 2]}
    [] op = "payrollList" ->
         {[NoBody EXCEPT !.employeeId = e, !.status = st] :
            e \in {0, 1, 2}, st \in {"", "DRAFT"}}
    [] op = "employeeList" -> {NoBody, [NoBody EXCEPT !.status = "ACTIVE"]}
    [] OTHER -> {NoBody}

\* a request to one of `routes` by one of the callers
Guarded(routes, creds) ==
  \E r \in Req, op \in routes, cred \in creds :
    \E id \in RequestIds(op), body \in RequestBodies(op) :
      Authorize(r, op, cred, id, body)

\* a request to route `op` with an id and a body of the given sets
GuardedWith(op, creds, ids, bodies) ==
  \E r \in Req, cred \in creds, id \in ids, body \in bodies :
    Authorize(r, op, cred, id, body)

\* the guarded payroll and training routes
NextGuard ==
  \/ \E r \in Req : Recycle(r)
  \/ Guarded(GuardedRoutes, Credentials({1, 2, 3, 5}, {1}))
  \/ \E r \in Req : PayrollGetFind(r)
  \/ \E r \in Req : PayrollCreateFind(r)
  \/ \E r \in Req : PayrollCreate(r)
  \/ \E r \in Req : PayrollUpdateFind(r)
  \/ \E r \in Req : PayrollUpdate(r)
  \/ \E r \in Req : PayrollDeleteFind(r)
  \/ \E r \in Req : PayrollDelete(r)
  \/ \E r \in Req : AuditAndRespond(r)
  \/ \E r \in Req : TrainingGet(r)
  \/ \E r \in Req : TrainingCreate(r)
  \/ \E r \in Req : TrainingUpdate(r)
  \/ \E r \in Req : TrainingDelete(r)

SpecGuard == InitSeeded /\ [][NextGuard]_vars

\* the audit recorder under failures of the audit store
NextAudit ==
  \/ AuditStoreFlip
  \/ \E r \in Req : Recycle(r)
  \/ RegisterSteps({"frank@x.com"}, {SeedPassword}, {"EMPLOYEE"})
  \/ Guarded({"payrollGet", "payrollDelete"}, Credentials(1..3, {}))
  \/ \E r \in Req, cred \in Credentials({1, 3}, {}), id \in {0, 1} :
       AuditLogGet(r, cred, id)
  \/ \E r \in Req : PayrollGetFind(r)
  \/ \E r \in Req : PayrollDeleteFind(r)
  \/ \E r \in Req : PayrollDelete(r)
  \/ \E r \in Req : AuditAndRespond(r)

SpecAudit == InitSeeded /\ [][NextAudit]_vars

\* login, user deletion and employee termination
NextDeactivate ==
  \/ \E r \in Req : Recycle(r)
  \/ RegisterSteps({"frank@x.com"}, {SeedPassword}, {"EMPLOYEE"})
  \/ LoginSteps({"alice@x.com", "carol@x.com"}, {SeedPassword})
  \/ \E r \in Req, c \in {3, 4}, t \in {1, 3} : DeleteUser(r, c, t)
  \/ Guarded({"employeeDelete"}, Credentials({1, 3, 4}, {}))
  \/ \E r \in Req : EmployeeDeleteFind(r)
  \/ \E r \in Req : EmployeeTerminate(r)
  \/ \E r \in Req : EmployeeDeactivateUser(r)
  \/ \E r \in Req : AuditAndRespond(r)

SpecDeactivate == InitSeeded /\ [][NextDeactivate]_vars

\* the list and single-record reads of payroll, employees and users
NextRead ==
  \/ \E r \in Req : Recycle(r)
  \/ Guarded({"payrollList", "employeeList"}, Credentials({1, 2, 3, 5}, {}))
  \/ \E r \in Req, cred \in Credentials({1, 3, 5}, {5}), id \in {1, 5, 6} :
       UserGetStart(r, cred, id)
  \/ \E r \in Req : PayrollListFind(r)
  \/ \E r \in Req : EmployeeListFind(r)
  \/ \E r \in Req : UserGetFind(r)
  \/ \E r \in Req : AuditAndRespond(r)

SpecRead == InitSeeded /\ [][NextRead]_vars

\* registration and employee termination when a store write can be rejected
NextFault ==
  \/ \E r \in Req : Recycle(r)
  \/ RegisterSteps({"frank@x.com", "gina@x.com"}, {SeedPassword}, {"EMPLOYEE"})
  \/ Guarded({"employeeDelete"}, Credentials({3}, {}))
  \/ \E r \in Req : EmployeeDeleteFind(r)
  \/ \E r \in Req : EmployeeTerminate(r)
  \/ \E r \in Req : EmployeeDeactivateUser(r)
  \/ \E r \in Req : AuditAndRespond(r)
  \/ \E r \in Req : StoreWriteFails(r)

SpecFault == InitSeeded /\ [][NextFault]_vars

\* the API client against a server that may answer anything
NextClient ==
  \/ \E c \in Call : ClientSend(c)
  \/ \E c \in Call, status \in Statuses : ClientResponse(c, status)
  \/ \E c \in Call, ok \in BOOLEAN, token \in FreshTokens :
       ClientRefreshResponse(c, ok, token)
  \/ \E c \in Call : ClientNext(c)

SpecClient == InitClient /\ [][NextClient]_vars

\* payroll creates, updates of amounts and of the status, and deletes, by HR
NextPayroll ==
  \/ \E r \in Req : Recycle(r)
  \/ GuardedWith("payrollCreate", Credentials({3}, {}), {0},
                 {[NoBody EXCEPT !.employeeId = 2, !.status = "DRAFT",
                                 !.baseSalary = 3, !.tax = 1]})
  \/ GuardedWith("payrollUpdate", Credentials({3}, {}), {1},
                 {[NoBody EXCEPT !.baseSalary = 3],
                  [NoBody EXCEPT !.deductions = 1],
                  [NoBody EXCEPT !.status = "PROCESSED"]})
  \/ GuardedWith("payrollDelete", Credentials({3}, {}), {1}, {NoBody})
  \/ \E r \in Req : PayrollCreateFind(r)
  \/ \E r \in Req : PayrollCreate(r)
  \/ \E r \in Req : PayrollUpdateFind(r)
  \/ \E r \in Req : PayrollUpdate(r)
  \/ \E r \in Req : PayrollDeleteFind(r)
  \/ \E r \in Req : PayrollDelete(r)
  \/ \E r \in Req : AuditAndRespond(r)

SpecPayroll == InitSeeded /\ [][NextPayroll]_vars

\* the names a department request can carry
DepartmentNames == {"Sales", "Ops"}

\* department creates and renames, by HR and by an EMPLOYEE
NextDepartment ==
  \/ \E r \in Req : Recycle(r)
  \/ GuardedWith("departmentCreate", Credentials({1, 3}, {}), {0},
                 {[NoBody EXCEPT !.name = n] : n \in DepartmentNames})
  \/ GuardedWith("departmentUpdate", Credentials({1, 3}, {}), {1, 2},
                 {[NoBody EXCEPT !.name = n] : n \in DepartmentNames})
  \/ \E r \in Req : DepartmentCreateFind(r)
  \/ \E r \in Req : DepartmentCreate(r)
  \/ \E r \in Req : DepartmentUpdateFind(r)
  \/ \E r \in Req : DepartmentUpdateCheck(r)
  \/ \E r \in Req : DepartmentUpdate(r)
  \/ \E r \in Req : AuditAndRespond(r)

SpecDepartment == InitSeeded /\ [][NextDepartment]_vars

(* ----------------------------- properties ------------------------------ *)
Done(r, op) == reqs[r].op = op /\ reqs[r].pc = "done"

Succeeded(r, op) == Done(r, op) /\ reqs[r].outcome.kind = "success"

Failed(r, op) == Done(r, op) /\ reqs[r].outcome.kind # "success"

TokensOf(uid) == {x \in refreshTokens : x.userId = uid}

\* request r goes from `from` to done in this step
Completes(r, op, from) ==
  reqs[r].pc = from /\ reqs'[r].op = op /\ reqs'[r].pc = "done"

\* the tokens returned to the user before login q began are gone once q succeeded
C1_SupersededAbsent ==
  \A q \in Req : Succeeded(q, "login") =>
    \A t \in reqs[q].before :
      /\ ~\E x \in refreshTokens : x.token = t
      /\ RefreshUsable(refreshTokens, t, now) = {}

\* a refresh that presents such a token after q succeeded is refused
C1_SupersededRefreshFails ==
  \A q, r \in Req :
    (Succeeded(q, "login") /\ Completes(r, "refresh", "idle")
       /\ reqs'[r].token \in reqs[q].before)
    => reqs'[r].outcome = InvalidTokenError

\* C1: once a login that began after an earlier login (or registration) of the
\* same user had returned its refresh token has succeeded, that earlier token
\* is not in the ledger, and a refresh presenting it ends with InvalidToken.
C1_SequentialLogins == []C1_SupersededAbsent /\ [][C1_SupersededRefreshFails]_vars

C1_Witness ==
  \E q, r \in Req :
    /\ Succeeded(q, "login")
    /\ Done(r, "refresh")
    /\ reqs[r].token \in reqs[q].before
    /\ reqs[r].outcome = InvalidTokenError
    /\ \E x \in returned :
         x.token = reqs[r].token /\ x.userId = reqs[q].uid /\ x.by = "login"

\* C2: when every slot holds a completed, successful login of the same user
\* (so all the concurrent logins are over), the ledger holds at most one
\* refresh token of that user.
C2_OneLineagePerUser ==
  \A uid \in {u.id : u \in users} :
    (\A r \in Req : Succeeded(r, "login") /\ reqs[r].uid = uid)
    => Cardinality(TokensOf(uid)) <= 1

C4_LaterCallRefused ==
  \A r \in Req :
    (Completes(r, "resetPassword", "service") /\ reqs[r].token \in resetApplied)
    => /\ reqs'[r].outcome = InvalidTokenError
       /\ users' = users
       /\ resetApplied' = resetApplied

C7_RefreshKeepsLedger ==
  \A r \in Req :
    (Completes(r, "refresh", "idle") /\ reqs'[r].outcome.kind = "success")
    => /\ refreshTokens' = refreshTokens
       /\ RefreshUsable(refreshTokens', reqs'[r].token, now') # {}

C8_DuplicateRegisterRejected ==
  /\ \A r \in Req : (Done(r, "register") /\ reqs[r].seen # {}) =>
       /\ reqs[r].outcome = UserExistsError
       /\ reqs[r].uid = 0 /\ reqs[r].newTok = 0
  /\ \A r \in Req : Failed(r, "register") =>
       /\ reqs[r].uid = 0 /\ reqs[r].newTok = 0
       /\ reqs[r].outcome \in {UserExistsError, UniqueViolation}
  /\ \A e \in Emails : Cardinality(FindByEmail(e)) <= 1
  /\ Cardinality({u.id : u \in users}) = Cardinality(users)
  /\ \A x \in refreshTokens : UserById(x.userId) # {}
  /\ Len(auditLogs) <= Cardinality(users)
  /\ \A i \in 1..Len(auditLogs) : UserById(auditLogs[i].resourceId) # {}

\* an existing email was refused, and two concurrent registers of one new email
\* ended with one user
C8_Witness ==
  \E r, q \in Req :
    /\ r # q
    /\ Done(r, "register") /\ reqs[r].seen # {}
    /\ reqs[r].outcome = UserExistsError
    /\ Done(q, "register") /\ reqs[q].seen = {}
    /\ reqs[q].outcome = UniqueViolation
    /\ Cardinality(FindByEmail(reqs[q].email)) = 1

\* the user row a login read is the one register wrote for credentials g
ReadRegistered(r, g) ==
  \E u \in reqs[r].seen : u.id = g.uid /\ u.password = g.hash /\ u.isActive

\* C9: a login that reads the user row as register wrote it (same hash, still
\* active) succeeds with an access token and a refresh token when it presents
\* the registered password, and fails with AuthenticationError when it
\* presents any other password.
C9_RegisterThenLogin ==
  \A r \in Req : \A g \in registered :
    (Done(r, "login") /\ ReadRegistered(r, g)) =>
      IF reqs[r].password = g.password
      THEN /\ reqs[r].outcome.kind = "success"
           /\ reqs[r].outcome.accessToken = AccessToken(g.uid, reqs[r].urole)
           /\ reqs[r].outcome.refreshToken = reqs[r].newTok
           /\ reqs[r].newTok # 0
      ELSE /\ reqs[r].outcome.kind = "AuthenticationError"
           /\ reqs[r].outcome.refreshToken = 0
           /\ reqs[r].outcome.accessToken = <<>>

C9_Witness ==
  \E r, q \in Req : \E g \in registered :
    /\ Done(r, "login") /\ ReadRegistered(r, g)
    /\ reqs[r].password = g.password /\ reqs[r].outcome.kind = "success"
    /\ Done(q, "login") /\ ReadRegistered(q, g)
    /\ reqs[q].password # g.password
    /\ reqs[q].outcome.kind = "AuthenticationError"

\* which of the three refused cases a login met when it read the user row
LoginCase(r) ==
  IF reqs[r].seen = {} THEN "no user"
  ELSE IF \E u \in reqs[r].seen : ~u.isActive THEN "inactive"
  ELSE "wrong password"

\* C10: every refused login carries the same error (kind, message and code)
\* whichever of the three cases it met, any two refused logins are answered
\* alike, and a refused login has issued no token.
C10_LoginFailureOpaque ==
  /\ \A r \in Req : Failed(r, "login") =>
       /\ reqs[r].outcome.kind = "AuthenticationError"
       /\ reqs[r].outcome.message = "Invalid credentials"
       /\ reqs[r].outcome.code = "INVALID_CREDENTIALS"
       /\ reqs[r].outcome.accessToken = <<>>
       /\ reqs[r].outcome.refreshToken = 0
       /\ reqs[r].newTok = 0
  /\ \A r, q \in Req :
       (Failed(r, "login") /\ Failed(q, "login")) => reqs[r].outcome = reqs[q].outcome

C10_Witness ==
  \E r, q \in Req :
    /\ Failed(r, "login") /\ LoginCase(r) = "inactive"
    /\ Failed(q, "login") /\ LoginCase(q) = "wrong password"
    /\ reqs[r].outcome = reqs[q].outcome

Verified(r) == reqs[r].access # NoToken /\ reqs[r].verified

\* a payroll mutation by an EMPLOYEE has been refused at the guard
C12_EmployeeRefused ==
  \A r \in Req :
    (reqs[r].op \in PayrollMutations /\ Verified(r)
       /\ reqs[r].access[3] = "EMPLOYEE")
    => /\ reqs[r].pc = "done"
       /\ reqs[r].outcome = DeniedError
       /\ reqs[r].touched = <<>> /\ reqs[r].logged = <<>>

\* the step that refuses it leaves the store as it was
C12_StoreKept ==
  \A r \in Req :
    (reqs[r].pc = "idle" /\ reqs'[r].op \in PayrollMutations
       /\ reqs'[r].user.role = "EMPLOYEE")
    => UNCHANGED <<users, employees, payrollRecords, trainingRecords, nextId,
                   auditLogs, refreshTokens>>

\* C12: a payroll create, update or delete by a caller with role EMPLOYEE
\* ends Denied at the guard, whichever record it addresses; its handler has
\* done no store operation and the step leaves every store as it was.
C12_EmployeeDenied == []C12_EmployeeRefused /\ [][C12_StoreKept]_vars

\* alice refused on her own record and on carol's, both still stored
C12_Witness ==
  \E r, q \in Req :
    /\ reqs[r].op = "payrollDelete" /\ reqs[q].op = "payrollUpdate"
    /\ reqs[r].user.id = 1 /\ reqs[q].user.id = 1
    /\ reqs[r].rid = 1 /\ reqs[q].rid = 2
    /\ reqs[r].outcome = DeniedError /\ reqs[q].outcome = DeniedError
    /\ \E x \in payrollRecords : x.id = 1 /\ x.employeeId = reqs[r].user.employeeId
    /\ \E x \in payrollRecords : x.id = 2 /\ x.status = "DRAFT"

ReadRoutes == {"payrollGet", "trainingGet"}

\* the record the own-record rule of request r was applied to
Judged(r) == IF reqs[r].op = "trainingGet" THEN reqs[r].before ELSE reqs[r].seen

\* C13: a single-record read by an EMPLOYEE that succeeded returned a record
\* of the caller's own employee profile; a read of an existing record of
\* another employee, or by a caller without a profile, ended Denied; a read
\* of the caller's own payroll record succeeded.
C13_OwnRecordOnly ==
  \A r \in Req :
    (reqs[r].op \in ReadRoutes /\ reqs[r].pc = "done"
       /\ reqs[r].user.role = "EMPLOYEE")
    => /\ reqs[r].outcome.kind = "success" =>
            /\ reqs[r].seen # {}
            /\ \A x \in reqs[r].seen : x.employeeId = reqs[r].user.employeeId
       /\ \A x \in Judged(r) :
            x.employeeId # reqs[r].user.employeeId => reqs[r].outcome \in Denials
       /\ (reqs[r].op = "payrollGet" /\ reqs[r].seen # {}
             /\ \A x \in reqs[r].seen : x.employeeId = reqs[r].user.employeeId)
          => reqs[r].outcome.kind = "success"

\* the payroll half of C13 alone: GET /:id of a payroll record by an EMPLOYEE
\* succeeds exactly for a record of the caller's own profile, else is Denied
PayrollOwnRecordOnly ==
  \A r \in Req :
    (Done(r, "payrollGet") /\ reqs[r].user.role = "EMPLOYEE" /\ reqs[r].seen # {})
    => \A x \in reqs[r].seen :
         IF x.employeeId = reqs[r].user.employeeId /\ reqs[r].user.employeeId # 0
         THEN reqs[r].outcome.kind = "success"
         ELSE reqs[r].outcome = AccessDeniedError

MutationKind(op) ==
  CASE op \in {"payrollCreate", "trainingCreate"} -> "CREATE"
    [] op \in {"payrollUpdate", "trainingUpdate"} -> "UPDATE"
    [] OTHER -> "DELETE"

\* C14: a payroll or training create, update or delete that succeeded has
\* written exactly one audit entry, whose actor is the caller, whose action
\* is the kind of the operation and whose resource id is the affected record,
\* and that entry is in the audit log.
C14_OneAuditEntry ==
  \A r \in Req :
    (reqs[r].op \in PayrollMutations \cup TrainingMutations
       /\ reqs[r].pc = "done" /\ reqs[r].outcome.kind = "success")
    => /\ Len(reqs[r].logged) = 1
       /\ reqs[r].logged[1].userId = reqs[r].user.id
       /\ reqs[r].logged[1].action = MutationKind(reqs[r].op)
       /\ reqs[r].logged[1].resourceId = reqs[r].rid
       /\ \E i \in 1..Len(auditLogs) : auditLogs[i] = reqs[r].logged[1]

C16_EntriesKept ==
  /\ Len(auditLogs') >= Len(auditLogs)
  /\ \A i \in 1..Len(auditLogs) : auditLogs'[i] = auditLogs[i]

\* C16: no step of any operation removes or changes an entry of the audit
\* log; a step leaves the log as it was or appends to it.
C16_AppendOnly == [][C16_EntriesKept]_vars

\* two entries of different operations, after the log has been read
C16_Witness ==
  /\ Len(auditLogs) >= 2
  /\ auditLogs[1].action # auditLogs[2].action
  /\ \E r \in Req : Succeeded(r, "auditLogGet")

\* C17: a guarded request whose token is missing or does not verify has ended
\* Unauthenticated, whatever role the token names, and one whose token
\* verifies but whose role is outside the route's list has ended Denied; in
\* both cases neither the own-record rule nor the handler has read or written
\* anything. A request refused by the own-record rule, or past the guard, has
\* a verified token and an allowed role.
C17_GuardOrder ==
  \A r \in Req : reqs[r].op \in GuardedRoutes =>
    /\ ~Verified(r) =>
         /\ reqs[r].pc = "done" /\ reqs[r].outcome = UnauthenticatedError
         /\ reqs[r].user = NoUser /\ reqs[r].before = {}
         /\ reqs[r].touched = <<>> /\ reqs[r].logged = <<>>
    /\ (Verified(r) /\ reqs[r].access[3] \notin AllowedRoles(reqs[r].op)) =>
         /\ reqs[r].pc = "done" /\ reqs[r].outcome = DeniedError
         /\ reqs[r].before = {}
         /\ reqs[r].touched = <<>> /\ reqs[r].logged = <<>>
    /\ (reqs[r].pc # "done" \/ reqs[r].touched # <<>> \/ reqs[r].before # {}
          \/ reqs[r].outcome = AccessDeniedError) =>
         /\ Verified(r)
         /\ reqs[r].access[3] \in AllowedRoles(reqs[r].op)

\* an expired token of a role outside the list answered 401, and a valid
\* token of a role outside the list answered 403
C17_Witness ==
  \E r, q \in Req :
    /\ reqs[r].op = "payrollCreate" /\ reqs[r].access = AccessToken(1, "EMPLOYEE")
    /\ ~reqs[r].verified /\ reqs[r].outcome = UnauthenticatedError
    /\ reqs[q].op = "payrollGet" /\ reqs[q].access = AccessToken(5, "MANAGER")
    /\ reqs[q].verified /\ reqs[q].outcome = DeniedError
    /\ reqs[q].touched = <<>>

\* the READ entry of request r
ReadEntry(r) == AuditEntry(reqs[r].user.id, "READ", "payroll_records", reqs[r].rid)

Quiescent == \A r \in Req : reqs[r].pc \in {"idle", "done"}

\* C19: when no request is in flight, the ledger holds no refresh token of a
\* user whose account is deactivated.
C19_DeactivatedHasNoToken ==
  Quiescent => \A u \in users : ~u.isActive => TokensOf(u.id) = {}

\* a step keeps every user row: its id, email, role and employee link
C20_UsersKept ==
  \A u \in users : \E v \in users' :
    /\ v.id = u.id /\ v.email = u.email
    /\ v.role = u.role /\ v.employeeId = u.employeeId
    /\ v.password = u.password

\* C20: no step of register, login, user deletion or employee termination
\* removes a user row; a deleted or terminated user is still stored, with
\* isActive false.
C20_NoHardDelete == [][C20_UsersKept]_vars

\* alice deactivated by the termination of her employee profile and carol by
\* DELETE /users/:id, both still stored
C20_Witness ==
  \E r, q \in Req :
    /\ Succeeded(r, "employeeDelete") /\ reqs[r].rid = 1
    /\ Succeeded(q, "deleteUser") /\ reqs[q].uid = 3
    /\ \E u \in users : u.id = 1 /\ ~u.isActive /\ u.email = "alice@x.com"
    /\ \E u \in users : u.id = 3 /\ ~u.isActive /\ u.email = "carol@x.com"

\* C21: a payroll list answered to an EMPLOYEE holds only records of the
\* caller's own employee profile, whatever filter was asked for; for an
\* EMPLOYEE without a profile it holds no record at all.
C21_ListOwnRecordsOnly ==
  \A r \in Req :
    (Done(r, "payrollList") /\ reqs[r].user.role = "EMPLOYEE"
       /\ reqs[r].outcome.kind = "success")
    => \A x \in reqs[r].seen :
         reqs[r].user.employeeId # 0 /\ x.employeeId = reqs[r].user.employeeId

\* the rule holds for an EMPLOYEE who has an employee profile
PayrollListOwnIfLinked ==
  \A r \in Req :
    (Done(r, "payrollList") /\ reqs[r].user.role = "EMPLOYEE"
       /\ reqs[r].user.employeeId # 0)
    => \A x \in reqs[r].seen : x.employeeId = reqs[r].user.employeeId

C23_UserReadRule ==
  \A r \in Req : (Done(r, "userGet") /\ Verified(r)) =>
    IF reqs[r].user.role \in {"ADMIN", "HR"} \/ reqs[r].rid = reqs[r].user.id
    THEN reqs[r].outcome # UnauthorizedAccessError
    ELSE /\ reqs[r].outcome = UnauthorizedAccessError
         /\ reqs[r].touched = <<>> /\ reqs[r].logged = <<>>
         /\ reqs[r].seen = {}

\* alice refused erin's record and given her own
C23_Witness ==
  \E r, q \in Req :
    /\ Done(r, "userGet") /\ reqs[r].user.id = 1 /\ reqs[r].rid = 5
    /\ reqs[r].outcome = UnauthorizedAccessError
    /\ Succeeded(q, "userGet") /\ reqs[q].user.id = 1 /\ reqs[q].rid = 1
    /\ auditLogs = <<AuditEntry(1, "READ", "users", 1)>>

\* a login whose email is unknown, whose user is inactive or whose password
\* is not the stored one
LoginMustFail(r) ==
  /\ reqs[r].op = "login"
  /\ \/ reqs[r].seen = {}
     \/ \E u \in reqs[r].seen :
          ~u.isActive \/ Hash(reqs[r].password, u.password[2]) # u.password

\* such a login has ended with an error, without minting a token
C24_FailedLoginRefused ==
  \A r \in Req : LoginMustFail(r) =>
    /\ reqs[r].pc = "done" /\ reqs[r].outcome.kind # "success"
    /\ reqs[r].newTok = 0 /\ reqs[r].uid = 0

\* the step in which a login fails keeps the ledger and the users
C24_FailedLoginStep ==
  \A r \in Req :
    (reqs[r].pc = "idle" /\ reqs'[r].op = "login" /\ reqs'[r].pc = "done"
       /\ reqs'[r].outcome.kind # "success")
    => /\ refreshTokens' = refreshTokens
       /\ users' = users

\* C24: a login with an unknown email, an inactive user or a wrong password
\* ends with an error in the step that looked the user up, and that step
\* changes neither the refresh token ledger nor any user (lastLoginAt
\* included).
C24_FailedLoginChangesNothing ==
  []C24_FailedLoginRefused /\ [][C24_FailedLoginStep]_vars

\* a wrong password and a deactivated user, both refused, while the user of
\* the first still holds the refresh token of an earlier login
C24_Witness ==
  \E r, q \in Req :
    /\ Failed(r, "login") /\ Failed(q, "login") /\ r # q
    /\ \E u \in reqs[r].seen : u.isActive /\ TokensOf(u.id) # {}
                                  /\ u.lastLoginAt = 0 /\ u \in users
    /\ \E u \in reqs[q].seen : ~u.isActive

\* C25: a register request that has ended with an error has left no user of
\* its own in the credential store.
C25_RegisterAllOrNothing ==
  \A r \in Req :
    Failed(r, "register") => (reqs[r].uid = 0 \/ UserById(reqs[r].uid) = {})

\* the users linked to employee e
LinkedUsers(e) == {u \in users : u.employeeId = e}

\* C30: a termination refused because the employee was already TERMINATED or
\* had an ACTIVE subordinate has written nothing; one that succeeded has left
\* the employee TERMINATED and every linked user inactive; and a finished
\* termination that did set the employee TERMINATED, whatever its outcome,
\* has left no linked user active.
C30_TerminationComplete ==
  \A r \in Req : Done(r, "employeeDelete") =>
    /\ reqs[r].outcome.kind = "ValidationError" => reqs[r].touched = <<"read">>
    /\ reqs[r].outcome.kind = "success" =>
         /\ \A e \in employees :
              e.id = reqs[r].rid => e.employmentStatus = "TERMINATED"
         /\ \A u \in LinkedUsers(reqs[r].rid) : ~u.isActive
    /\ (Len(reqs[r].touched) >= 2 /\ reqs[r].touched[2] = "write") =>
         \A u \in LinkedUsers(reqs[r].rid) : ~u.isActive

\* without a rejected store write, a finished termination is complete
TerminationCompleteIfStored ==
  \A r \in Req :
    (Done(r, "employeeDelete") /\ reqs[r].outcome # StoreError) =>
      /\ reqs[r].outcome.kind = "ValidationError" => reqs[r].touched = <<"read">>
      /\ reqs[r].outcome.kind = "success" =>
           /\ \A e \in employees :
                e.id = reqs[r].rid => e.employmentStatus = "TERMINATED"
           /\ \A u \in LinkedUsers(reqs[r].rid) : ~u.isActive

\* for one request: at most one refresh call and at most two sends, the
\* second only after the one refresh; a retried request that was answered
\* 401 is rejected
C26_Bounded ==
  \A c \in Call :
    /\ calls[c].refreshes <= 1
    /\ calls[c].sends <= 2
    /\ calls[c].sends = 2 => (calls[c].refreshes = 1 /\ calls[c].retry)
    /\ calls[c].pc = "refreshing" => calls[c].sends = 1
    /\ (calls[c].sends = 2 /\ calls[c].status = 401
          /\ calls[c].pc # "sent") => calls[c].pc = "rejected"

\* the answer to a retried request settles it, without a refresh call
C26_RetrySettles ==
  \A c \in Call :
    (calls[c].pc = "sent" /\ calls[c].sends = 2 /\ calls'[c] # calls[c])
    => /\ calls'[c].pc \in {"resolved", "rejected"}
       /\ calls'[c].refreshes = calls[c].refreshes
       /\ calls'[c].sends = calls[c].sends

\* C26: a request sent through the API client causes at most one refresh
\* call and is sent at most twice; a 401 on the retried request is handed to
\* the caller as a rejection and starts no further refresh.
C26_RetryOnce == []C26_Bounded /\ [][C26_RetrySettles]_vars

\* a request answered 401, refreshed, sent again and answered 401 again: it
\* is rejected, and the tokens are still stored
C26_Witness ==
  \E c \in Call :
    /\ calls[c].pc = "rejected" /\ calls[c].status = 401
    /\ calls[c].sends = 2 /\ calls[c].refreshes = 1
    /\ localStorage.refreshToken # 0 /\ location = "/"

\* netPay = baseSalary + overtime + bonuses + allowances - deductions - tax
NetPayConsistent(x) ==
  x.netPay = x.baseSalary + x.overtime + x.bonuses + x.allowances
               - x.deductions - x.tax

\* C27: every stored payroll record has the netPay of its own amounts, after
\* any creates and updates, interleaved or not.
C27_NetPayInvariant == \A x \in payrollRecords : NetPayConsistent(x)

\* a step keeps every payroll record that is PROCESSED or PAID
C28_ProcessedKept ==
  \A x \in payrollRecords :
    x.status \in {"PROCESSED", "PAID"} => \E y \in payrollRecords' : y.id = x.id

\* a delete that found the record PROCESSED or PAID was refused with a
\* validation error, without a write or an audit entry
C28_ProcessedRefused ==
  \A r \in Req :
    (Done(r, "payrollDelete")
       /\ \E x \in reqs[r].seen : x.status \in {"PROCESSED", "PAID"})
    => /\ reqs[r].outcome.kind = "ValidationError"
       /\ reqs[r].touched = <<"read">> /\ reqs[r].logged = <<>>

\* C28: no step removes a payroll record whose status is PROCESSED or PAID
\* when the step is taken, and a delete of such a record is refused with a
\* validation error, keeps the record and writes no audit entry.
C28_ProcessedNeverDeleted == []C28_ProcessedRefused /\ [][C28_ProcessedKept]_vars

\* C29: no two departments in the store have the same name, after any
\* creates and renames, interleaved or not.
C29_DepartmentNamesUnique ==
  \A d, e \in departments : d.name = e.name => d.id = e.id

\* a create or rename whose name was taken when its handler looked was
\* refused without a write
DepartmentNameTakenRefused ==
  \A r \in Req :
    (reqs[r].op \in DepartmentMutations /\ reqs[r].pc = "done"
       /\ reqs[r].outcome.kind = "ValidationError")
    => ~\E i \in 1..Len(reqs[r].touched) : reqs[r].touched[i] = "write"

====
